---- MODULE Spec2Model ----
(***************************************************************************)
(* Flight-route network engine: FlightGraph (app/models/graph.py) and      *)
(* HubAnalyzer (app/services/hub_analysis.py).                             *)
(*                                                                         *)
(* Units.  distance is in km; time is in 1/100 hour; money is in 1/100     *)
(* currency unit.  The airport coordinates below give distances that are   *)
(* multiples of 8 km, so distance / 800.0 hours and distance * 0.1 are     *)
(* whole numbers of these units and round(x, 2) leaves them unchanged.     *)
(*                                                                         *)
(* Objects.  A networkx DiGraph is an object on the heap; FlightGraph.graph*)
(* and HubAnalyzer.graph hold references (object ids) to it.               *)
(***************************************************************************)
EXTENDS Integers, Sequences, FiniteSets, TLC

VARIABLES airports_df, routes_df, heap, fg_graph, ha_graph, th, hash_seed

vars == <<airports_df, routes_df, heap, fg_graph, ha_graph, th, hash_seed>>

(***************************************************************************)
(* Bounds of the model.                                                    *)
(***************************************************************************)
\* routes_df is RoutePool without a run of at most MaxDropped consecutive records
MaxDropped == 1
\* largest k passed to find_k_shortest_paths, largest top_k passed to get_top_hubs and
\* find_alternative_hubs
MaxK == 3
\* largest max_stops passed to find_shortest_path
MaxStopsArg == 2
\* longest hubs_to_remove list
MaxHubs == 1
\* how many airports of the network a find_alternative_hubs query may name
MaxQueryCodes == 3

(***************************************************************************)
(* Program constants (config.py).                                          *)
(***************************************************************************)
MAX_STOPS == 3
DEFAULT_TRANSFER_TIME == 90
INTERNATIONAL_TRANSFER_TIME == 120

(***************************************************************************)
(* Optional values: None is the empty tuple, a present value a 1-tuple.    *)
(***************************************************************************)
None == << >>
Some(x) == <<x>>
IsNone(o) == o = << >>
Val(o) == o[1]

Range(s) == {s[i] : i \in DOMAIN s}

RECURSIVE SumSeq(_)
SumSeq(s) == IF s = << >> THEN 0 ELSE Head(s) + SumSeq(Tail(s))

(***************************************************************************)
(* Input records.  Airports is the airports DataFrame handed to the        *)
(* constructor; RoutePool the route records routes_df is drawn from.       *)
(***************************************************************************)
Airports ==
  << [iata |-> "AAA", country |-> "X", latitude |-> 0, longitude |-> 0],
     [iata |-> "BBB", country |-> "X", latitude |-> 1, longitude |-> 3],
     [iata |-> "CCC", country |-> "Y", latitude |-> 0, longitude |-> 6],
     [iata |-> "DDD", country |-> "Y", latitude |-> 1, longitude |-> 9],
     [iata |-> "EEE", country |-> "X", latitude |-> 0, longitude |-> 12],
     [iata |-> "FFF", country |-> "Z", latitude |-> 2, longitude |-> 15] >>

UnknownCode == "ZZZ"

RoutePool ==
  << [source_airport |-> "AAA", destination_airport |-> "BBB", airline |-> "AL1"],
     [source_airport |-> "BBB", destination_airport |-> "CCC", airline |-> "AL1"],
     [source_airport |-> "CCC", destination_airport |-> "DDD", airline |-> "AL1"],
     [source_airport |-> "DDD", destination_airport |-> "EEE", airline |-> "AL1"],
     [source_airport |-> "EEE", destination_airport |-> "FFF", airline |-> "AL1"],
     [source_airport |-> "AAA", destination_airport |-> "EEE", airline |-> "AL2"],
     [source_airport |-> "EEE", destination_airport |-> "BBB", airline |-> "AL2"],
     [source_airport |-> "BBB", destination_airport |-> "FFF", airline |-> "AL2"],
     [source_airport |-> "EEE", destination_airport |-> "DDD", airline |-> "AL2"],
     [source_airport |-> "AAA", destination_airport |-> "BBB", airline |-> "AL2"],
     [source_airport |-> "ZZZ", destination_airport |-> "AAA", airline |-> "AL1"],
     [source_airport |-> "DDD", destination_airport |-> "AAA", airline |-> "AL2"],
     [source_airport |-> "BBB", destination_airport |-> "ZZZ", airline |-> "AL1"],
     [source_airport |-> "DDD", destination_airport |-> "EEE", airline |-> "AL2"] >>

\* the codes a request may name
Codes == {Airports[i].iata : i \in DOMAIN Airports} \cup {UnknownCode}

CostTypes == {"time", "distance", "cost", "fastest"}

RECURSIVE DropIdx(_, _, _)
DropIdx(s, D, i) ==
  IF i > Len(s) THEN << >>
  ELSE (IF i \in D THEN << >> ELSE <<s[i]>>) \o DropIdx(s, D, i + 1)

(***************************************************************************)
(* FlightGraph._calculate_distance: the great-circle distance of two       *)
(* coordinates, here the planar distance rounded up to the next multiple   *)
(* of 8 km (symmetric, zero only between equal points, and it satisfies    *)
(* the triangle inequality, as the geodesic distance does).                *)
(***************************************************************************)
CeilSqrt(n) == CHOOSE r \in 0..n : r * r >= n /\ (r = 0 \/ (r - 1) * (r - 1) < n)

_calculate_distance(src_lat, src_lon, dst_lat, dst_lon) ==
  8 * CeilSqrt((src_lat - dst_lat) * (src_lat - dst_lat)
               + (src_lon - dst_lon) * (src_lon - dst_lon))

(***************************************************************************)
(* A DiGraph value: nodes and edges in insertion order.                    *)
(***************************************************************************)
EmptyGraph == [nodes |-> << >>, edges |-> << >>]

NodeSet(g) == {g.nodes[i].iata : i \in DOMAIN g.nodes}
EdgeSet(g) == {<<g.edges[i].src, g.edges[i].dst>> : i \in DOMAIN g.edges}
has_edge(g, u, v) == <<u, v>> \in EdgeSet(g)
EdgeIdx(g, u, v) == CHOOSE i \in DOMAIN g.edges : g.edges[i].src = u /\ g.edges[i].dst = v
\* G[u][v]
EdgeData(g, u, v) == g.edges[EdgeIdx(g, u, v)]

\* G.add_node(iata, **attrs): a known node keeps its place and takes the new attributes
add_node(g, rec) ==
  IF rec.iata \in NodeSet(g)
  THEN [g EXCEPT !.nodes = [i \in DOMAIN g.nodes |->
                              IF g.nodes[i].iata = rec.iata THEN rec ELSE g.nodes[i]]]
  ELSE [g EXCEPT !.nodes = Append(g.nodes, rec)]

\* G.add_edge(u, v, **attrs) creates the endpoints it does not know
add_edge(g, e) ==
  LET mk(c) == [iata |-> c, country |-> "", latitude |-> 0, longitude |-> 0]
      g1 == IF e.src \in NodeSet(g) THEN g ELSE [g EXCEPT !.nodes = Append(g.nodes, mk(e.src))]
      g2 == IF e.dst \in NodeSet(g1) THEN g1 ELSE [g1 EXCEPT !.nodes = Append(g1.nodes, mk(e.dst))]
  IN  [g2 EXCEPT !.edges = Append(g2.edges, e)]

\* airports_df[airports_df['iata'] == code].iloc[0]
FirstAirport(adf, code) == adf[CHOOSE i \in DOMAIN adf :
                                 adf[i].iata = code /\ \A j \in 1..(i - 1) : adf[j].iata # code]

\* graph.py 79-87 with <= for <: a tie replaces the edge kept so far
ReplacesExistingOnTie(monetary_cost, existing_cost) == monetary_cost <= existing_cost

\* graph.py 81: the comparison that lets a later route replace the edge kept so far
ReplacesExisting(monetary_cost, existing_cost) == monetary_cost < existing_cost

\* graph.py 60 without the test: every route is taken
SkipRouteNever(valid_iata_codes, src, dst) == FALSE

\* graph.py 60: a route whose source or destination is no airport is skipped
SkipRoute(valid_iata_codes, src, dst) ==
  src \notin valid_iata_codes \/ dst \notin valid_iata_codes

\* one iteration of the loop over routes_df (graph.py 55-96)
AddRoute(g, adf, route) ==
  LET src == route.source_airport
      dst == route.destination_airport
      valid_iata_codes == {adf[i].iata : i \in DOMAIN adf}
  IN  IF SkipRoute(valid_iata_codes, src, dst) THEN g
      ELSE
        LET lat(c) == IF c \in valid_iata_codes THEN FirstAirport(adf, c).latitude ELSE 0
            lon(c) == IF c \in valid_iata_codes THEN FirstAirport(adf, c).longitude ELSE 0
            distance == _calculate_distance(lat(src), lon(src), lat(dst), lon(dst))
            time_cost == distance \div 8
            monetary_cost == distance * 10
            e == [src |-> src, dst |-> dst, distance |-> distance, time_cost |-> time_cost,
                  monetary_cost |-> monetary_cost, airline |-> route.airline]
        IN  IF has_edge(g, src, dst)
            THEN IF ReplacesExisting(monetary_cost, EdgeData(g, src, dst).monetary_cost)
                 THEN [g EXCEPT !.edges[EdgeIdx(g, src, dst)] = e]
                 ELSE g
            ELSE add_edge(g, e)

RECURSIVE AddNodes(_, _, _)
AddNodes(g, adf, i) ==
  IF i > Len(adf) THEN g ELSE AddNodes(add_node(g, adf[i]), adf, i + 1)

RECURSIVE AddRoutes(_, _, _, _)
AddRoutes(g, adf, rdf, i) ==
  IF i > Len(rdf) THEN g ELSE AddRoutes(AddRoute(g, adf, rdf[i]), adf, rdf, i + 1)

\* FlightGraph._build_graph
_build_graph(adf, rdf) == AddRoutes(AddNodes(EmptyGraph, adf, 1), adf, rdf, 1)

(***************************************************************************)
(* networkx: successors, copy, remove_node, bidirectional Dijkstra.        *)
(***************************************************************************)
\* the out-edges of u in adjacency (insertion) order
Successors(g, u) == SelectSeq(g.edges, LAMBDA e : e.src = u)
Predecessors(g, u) == SelectSeq(g.edges, LAMBDA e : e.dst = u)

\* G.copy(): the nodes in order, then the edges re-added node by node in the order of
\* G._adj, so that the predecessors of a node come in the order of the nodes
RECURSIVE CopyEdges(_, _)
CopyEdges(g, i) ==
  IF i > Len(g.nodes) THEN << >>
  ELSE Successors(g, g.nodes[i].iata) \o CopyEdges(g, i + 1)

copy(g) == [nodes |-> g.nodes, edges |-> CopyEdges(g, 1)]

\* G.remove_node(n): the node and its incident edges go
remove_node(g, n) ==
  [nodes |-> SelectSeq(g.nodes, LAMBDA r : r.iata # n),
   edges |-> SelectSeq(g.edges, LAMBDA e : e.src # n /\ e.dst # n)]

\* the view of G that shortest_simple_paths searches: ignore_nodes and ignore_edges left out
Restrict(g, ignore_nodes, ignore_edges) ==
  [nodes |-> SelectSeq(g.nodes, LAMBDA r : r.iata \notin ignore_nodes),
   edges |-> SelectSeq(g.edges, LAMBDA e : /\ e.src \notin ignore_nodes
                                           /\ e.dst \notin ignore_nodes
                                           /\ <<e.src, e.dst>> \notin ignore_edges)]

RemoveAt(s, i) == SubSeq(s, 1, i - 1) \o SubSeq(s, i + 1, Len(s))

\* heappop: the entry of least distance, the earliest pushed among equals
PopIndex(fringe) ==
  CHOOSE i \in DOMAIN fringe :
    /\ \A j \in DOMAIN fringe : fringe[i].d <= fringe[j].d
    /\ \A j \in 1..(i - 1) : fringe[j].d > fringe[i].d

Reverse(s) == [i \in DOMAIN s |-> s[Len(s) + 1 - i]]

\* neighs[dir][v]: G._succ[v] forward (dir 0), G._pred[v] backward (dir 1), as the
\* edges in adjacency order; Far is the neighbour at the other end
Neighs(g, dir, v) == IF dir = 0 THEN Successors(g, v) ELSE Predecessors(g, v)
Far(e, dir) == IF dir = 0 THEN e.dst ELSE e.src

\* bidirectional_dijkstra, 'relaxing': w is seen at vwLength from v
Relaxed(st, dir, v, w, vwLength) ==
  [st EXCEPT !.seen[dir] = (w :> vwLength) @@ @,
             !.fringe[dir] = Append(@, [d |-> vwLength, v |-> w]),
             !.paths[dir] = (w :> Append(st.paths[dir][v], w)) @@ @]

\* bidirectional_dijkstra: w seen from both ends gives a candidate, kept when it is
\* the first or strictly shorter than the one held
Meet(st, w) ==
  IF w \in DOMAIN st.seen[0] /\ w \in DOMAIN st.seen[1]
  THEN IF st.finalpath = << >> \/ st.finaldist > st.seen[0][w] + st.seen[1][w]
       THEN [st EXCEPT !.finaldist = st.seen[0][w] + st.seen[1][w],
                       !.finalpath = st.paths[0][w] \o Tail(Reverse(st.paths[1][w]))]
       ELSE st
  ELSE st

\* bidirectional_dijkstra: the loop over the neighbours of v in direction dir
RECURSIVE Relax(_, _, _, _, _, _)
Relax(st, dir, v, nbrs, attr, i) ==
  IF i > Len(nbrs) THEN st
  ELSE
    LET w == Far(nbrs[i], dir)
        vwLength == st.dists[dir][v] + nbrs[i][attr]
    IN  IF w \in DOMAIN st.dists[dir] THEN Relax(st, dir, v, nbrs, attr, i + 1)
        ELSE IF w \notin DOMAIN st.seen[dir] \/ vwLength < st.seen[dir][w]
        THEN Relax(Meet(Relaxed(st, dir, v, w, vwLength), w), dir, v, nbrs, attr, i + 1)
        ELSE Relax(st, dir, v, nbrs, attr, i + 1)

\* bidirectional_dijkstra: the main loop, the two directions taking turns
RECURSIVE DijkstraLoop(_, _, _)
Popped(g, attr, st, dir, i) ==
  LET top == st.fringe[dir][i]
      st1 == [st EXCEPT !.dir = dir, !.fringe[dir] = RemoveAt(@, i)]
  IN  IF top.v \in DOMAIN st.dists[dir] THEN DijkstraLoop(g, attr, st1)
      ELSE IF top.v \in DOMAIN st.dists[1 - dir]
      THEN [status |-> "ok", path |-> st.finalpath, length |-> st.finaldist]
      ELSE DijkstraLoop(g, attr,
                        Relax([st1 EXCEPT !.dists[dir] = (top.v :> top.d) @@ @],
                              dir, top.v, Neighs(g, dir, top.v), attr, 1))

DijkstraLoop(g, attr, st) ==
  IF st.fringe[0] = << >> \/ st.fringe[1] = << >>
  THEN [status |-> "NoPath", path |-> << >>, length |-> 0]
  ELSE Popped(g, attr, st, 1 - st.dir, PopIndex(st.fringe[1 - st.dir]))

\* nx.shortest_path(G, source, target, weight=attr), which searches with
\* bidirectional_dijkstra: status "ok" with the path and its length,
\* "NodeNotFound" or "NoPath"
shortest_path(g, source, target, attr) ==
  IF source \notin NodeSet(g) \/ target \notin NodeSet(g)
  THEN [status |-> "NodeNotFound", path |-> << >>, length |-> 0]
  ELSE IF source = target
  THEN [status |-> "ok", path |-> <<source>>, length |-> 0]
  ELSE DijkstraLoop(g, attr,
                    [dists |-> [d \in {0, 1} |-> << >>],
                     paths |-> [d \in {0, 1} |->
                                  IF d = 0 THEN source :> <<source>> ELSE target :> <<target>>],
                     fringe |-> [d \in {0, 1} |->
                                   <<[d |-> 0, v |-> IF d = 0 THEN source ELSE target]>>],
                     seen |-> [d \in {0, 1} |-> IF d = 0 THEN source :> 0 ELSE target :> 0],
                     finaldist |-> 0, finalpath |-> << >>, dir |-> 1])

\* the total of one edge attribute along a node sequence whose legs are edges of g
PathWeight(g, path, attr) ==
  SumSeq([i \in 1..(Len(path) - 1) |-> EdgeData(g, path[i], path[i + 1])[attr]])

(***************************************************************************)
(* nx.shortest_simple_paths(G, source, target, weight): the generator.     *)
(* listA holds the paths yielded, listB the candidate buffer in push       *)
(* order, prev the path yielded last.                                      *)
(***************************************************************************)
NewGen == [listA |-> << >>, listB |-> << >>, prev |-> << >>]

\* PathBuffer.push: a path already in the buffer is not pushed again
Push(listB, cost, path) ==
  IF \E i \in DOMAIN listB : listB[i].path = path THEN listB
  ELSE Append(listB, [cost |-> cost, path |-> path])

\* the spur path r found from the end of root joins the buffer
PushSpur(listB, root, root_length, r) ==
  IF r.status = "ok"
  THEN Push(listB, root_length + r.length, SubSeq(root, 1, Len(root) - 1) \o r.path)
  ELSE listB

\* the edges that leave root along a path already yielded
RootEdges(listA, root, i) ==
  {<<listA[j][i], listA[j][i + 1]>> :
     j \in {j \in DOMAIN listA : Len(listA[j]) > i /\ SubSeq(listA[j], 1, i) = root}}

\* the candidates of one round: a spur path from every node of prev but the last
RECURSIVE SpurLoop(_, _, _, _, _, _, _, _)
SpurLoop(g, target, attr, gen, i, ignore_nodes, ignore_edges, listB) ==
  IF i >= Len(gen.prev) THEN listB
  ELSE
    LET root == SubSeq(gen.prev, 1, i)
        ign == ignore_edges \cup RootEdges(gen.listA, root, i)
    IN  SpurLoop(g, target, attr, gen, i + 1, ignore_nodes \cup {root[i]}, ign,
                 PushSpur(listB, root, PathWeight(g, root, attr),
                          shortest_path(Restrict(g, ignore_nodes, ign),
                                        root[i], target, attr)))

\* listB.pop(): the candidate of least cost, the earliest pushed among equals
PopBest(gen, listB) ==
  IF listB = << >>
  THEN [status |-> "stop", path |-> << >>, gen |-> gen]
  ELSE
    LET i == CHOOSE i \in DOMAIN listB :
               /\ \A j \in DOMAIN listB : listB[i].cost <= listB[j].cost
               /\ \A j \in 1..(i - 1) : listB[j].cost > listB[i].cost
    IN  [status |-> "yield", path |-> listB[i].path,
         gen |-> [listA |-> Append(gen.listA, listB[i].path),
                  listB |-> RemoveAt(listB, i),
                  prev |-> listB[i].path]]

\* the first round: the shortest path is the only candidate
FirstRound(gen, first) ==
  IF first.status # "ok"
  THEN [status |-> first.status, path |-> << >>, gen |-> gen]
  ELSE PopBest(gen, Push(gen.listB, first.length, first.path))

\* next(generator): status "yield" with the path, "stop" when exhausted, or the
\* exception the first search raises
GenNext(g, source, target, attr, gen) ==
  IF gen.prev = << >>
  THEN FirstRound(gen, shortest_path(g, source, target, attr))
  ELSE PopBest(gen, SpurLoop(g, target, attr, gen, 1, {}, {}, gen.listB))

(***************************************************************************)
(* FlightGraph.get_transfer_time and _calculate_path_metrics.              *)
(***************************************************************************)
\* the international duration whatever the flag
international_transfer_time(airport_code, is_international) ==
  (INTERNATIONAL_TRANSFER_TIME * 100) \div 60

\* minutes / 60.0, in 1/100 hour
get_transfer_time(airport_code, is_international) ==
  IF is_international THEN (INTERNATIONAL_TRANSFER_TIME * 100) \div 60
  ELSE (DEFAULT_TRANSFER_TIME * 100) \div 60

\* self.graph[path[i]][path[i + 1]] raises KeyError when a leg is no edge
HasAllLegs(g, path) ==
  \A i \in 1..(Len(path) - 1) : has_edge(g, path[i], path[i + 1])

_calculate_path_metrics(g, path) ==
  LET legs == [i \in 1..(Len(path) - 1) |-> EdgeData(g, path[i], path[i + 1])]
      total_distance == SumSeq([i \in DOMAIN legs |-> legs[i].distance])
      total_time == SumSeq([i \in DOMAIN legs |-> legs[i].time_cost])
      total_cost == SumSeq([i \in DOMAIN legs |-> legs[i].monetary_cost])
      transfer_time ==
        IF Len(path) > 2
        THEN SumSeq([i \in 1..(Len(path) - 2) |-> get_transfer_time(path[i + 1], FALSE)])
        ELSE 0
  IN  [path |-> path,
       segments |-> [i \in DOMAIN legs |->
                       [from |-> path[i], to |-> path[i + 1],
                        distance |-> legs[i].distance, time |-> legs[i].time_cost,
                        cost |-> legs[i].monetary_cost, airline |-> legs[i].airline]],
       stops |-> Len(path) - 2,
       total_distance |-> total_distance,
       total_flight_time |-> total_time,
       total_transfer_time |-> transfer_time,
       total_time |-> total_time + transfer_time,
       total_cost |-> total_cost]

\* weight_map.get(cost_type, 'time_cost')
weight_map(cost_type) ==
  CASE cost_type = "time" -> "time_cost"
    [] cost_type = "distance" -> "distance"
    [] cost_type = "cost" -> "monetary_cost"
    [] OTHER -> "time_cost"

(***************************************************************************)
(* Calls.  A call is a frame: the operation, its arguments, its locals and *)
(* its position pc.  Step runs a call up to and including its next access  *)
(* to the shared field FlightGraph.graph; sh is the shared state           *)
(* [heap, fg] it reads and writes.                                         *)
(***************************************************************************)
Threads == {"t1", "t2"}

IdleFrame ==
  [op |-> "idle", pc |-> "idle",
   source |-> "", target |-> "", cost_type |-> "", max_stops |-> None, k |-> 0,
   hubs |-> << >>, primary_hub |-> "", hub |-> "", metric |-> "", top_k |-> 0,
   path |-> << >>, ret |-> None, paths |-> << >>, gen |-> NewGen, gen_graph |-> None,
   temp_graph |-> None, original_graph |-> None, alt_own |-> TRUE,
   original_path |-> None, alternative_path |-> None, impact |-> None,
   raised |-> "", reads |-> {}, searched |-> {}]

FrameFSP(source, target, cost_type, max_stops) ==
  [IdleFrame EXCEPT !.op = "find_shortest_path", !.pc = "fsp_check",
                    !.source = source, !.target = target,
                    !.cost_type = cost_type, !.max_stops = max_stops]

FrameKSP(source, target, k, cost_type) ==
  [IdleFrame EXCEPT !.op = "find_k_shortest_paths", !.pc = "ksp_check",
                    !.source = source, !.target = target,
                    !.cost_type = cost_type, !.k = k]

\* hub_analysis.py 127: find_shortest_path(source, target), cost_type 'time', no max_stops
FrameHub(source, target, hubs_to_remove) ==
  [IdleFrame EXCEPT !.op = "analyze_hub_removal", !.pc = "fsp_check",
                    !.source = source, !.target = target,
                    !.cost_type = "time", !.max_stops = None, !.hubs = hubs_to_remove]

\* which network a read of FlightGraph.graph saw
Kind(id) == IF id = ha_graph THEN "canonical" ELSE "transient"

\* the call ends (by return or by an exception): its locals die
Finish(fr) ==
  [fr EXCEPT !.pc = "done", !.path = << >>, !.gen = NewGen, !.gen_graph = None,
             !.temp_graph = None, !.original_graph = None]

Raise(fr, exc) == Finish([fr EXCEPT !.raised = exc])

\* find_shortest_path returns ret: to the caller of the API, or to analyze_hub_removal
ReturnFSP(fr, ret) ==
  IF fr.op = "analyze_hub_removal"
  THEN [fr EXCEPT !.original_path = ret, !.pc = "hub_copy", !.path = << >>]
  ELSE Finish([fr EXCEPT !.ret = ret])

\* hub_analysis.py 157-177
Impact(fr, alternative_path) ==
  [removed_hubs |-> fr.hubs,
   original_path |-> fr.original_path,
   alternative_path |-> alternative_path,
   path_exists |-> ~IsNone(alternative_path),
   deltas |->
     IF ~IsNone(fr.original_path) /\ ~IsNone(alternative_path)
     THEN Some([time_increase |-> Val(alternative_path).total_time
                                    - Val(fr.original_path).total_time,
                cost_increase |-> Val(alternative_path).total_cost
                                    - Val(fr.original_path).total_cost,
                distance_increase |-> Val(alternative_path).total_distance
                                        - Val(fr.original_path).total_distance,
                stops_increase |-> Val(alternative_path).stops
                                     - Val(fr.original_path).stops])
     ELSE None]

\* hub_analysis.py 134 without the guard on source and target
KeepsEndpointNever(hub, source, target) == TRUE

\* hub_analysis.py 134: source and target are not removed
KeepsEndpoint(hub, source, target) == hub # source /\ hub # target

\* hub_analysis.py 133-135
RECURSIVE RemoveHubs(_, _, _, _, _)
RemoveHubs(g, hubs, source, target, i) ==
  IF i > Len(hubs) THEN g
  ELSE RemoveHubs(IF hubs[i] \in NodeSet(g) /\ KeepsEndpoint(hubs[i], source, target)
                  THEN remove_node(g, hubs[i]) ELSE g,
                  hubs, source, target, i + 1)

FreshId(heap_) == CHOOSE n \in 0..Cardinality(DOMAIN heap_) : n \notin DOMAIN heap_

\* graph.py 151 with the bound ignored
ExceedsStopsNever(num_stops, max_stops) == FALSE

\* graph.py 151
ExceedsStops(num_stops, max_stops) == ~IsNone(max_stops) /\ num_stops > Val(max_stops)

\* graph.py 194 with every path let through
SkipsPathNever(path) == FALSE

\* graph.py 194
SkipsPath(path) == Len(path) - 2 > MAX_STOPS

\* hub_analysis.py 151 left out: the field keeps what it holds
RestoredGraphNot(fg, original_graph) == fg

\* hub_analysis.py 151: temp_fg.graph = original_graph
RestoredGraph(fg, original_graph) == original_graph

(***************************************************************************)
(* The steps of a call.                                                    *)
(***************************************************************************)
Saw(fr, id) == [fr EXCEPT !.reads = fr.reads \cup {Kind(id)}]

\* a path search (nx.shortest_path, nx.shortest_simple_paths) was called on the
\* network ("network") or on the copy made by analyze_hub_removal ("copy")
Searched(fr, what) == [fr EXCEPT !.searched = fr.searched \cup {what}]

\* graph.py 134 with only the source tested
MissingSourceOnly(g, source, target) == source \notin NodeSet(g)

\* graph.py 134 (and 179): source not in self.graph or target not in self.graph
MissingEndpoint(g, source, target) ==
  source \notin NodeSet(g) \/ target \notin NodeSet(g)

\* the node test that opens find_shortest_path and find_k_shortest_paths
StepCheck(sh, fr) ==
  LET g == sh.heap[sh.fg]
      f == Saw(fr, sh.fg)
  IN  IF MissingEndpoint(g, fr.source, fr.target)
      THEN IF fr.op = "find_k_shortest_paths"
           THEN [sh |-> sh, fr |-> Finish([f EXCEPT !.paths = << >>])]
           ELSE [sh |-> sh, fr |-> ReturnFSP(f, None)]
      ELSE [sh |-> sh,
            fr |-> [f EXCEPT !.pc = IF fr.op = "find_k_shortest_paths"
                                    THEN "ksp_next" ELSE "fsp_search"]]

\* graph.py 149-158: the checks on the path found
AfterSearch(sh, f, r) ==
  CASE r.status = "NoPath" -> [sh |-> sh, fr |-> ReturnFSP(f, None)]
    [] r.status = "NodeNotFound" -> [sh |-> sh, fr |-> Raise(f, "NodeNotFound")]
    [] OTHER ->
         IF ExceedsStops(Len(r.path) - 2, f.max_stops)
         THEN [sh |-> sh, fr |-> ReturnFSP(f, None)]
         ELSE [sh |-> sh, fr |-> [f EXCEPT !.path = r.path, !.pc = "fsp_metrics"]]

\* graph.py 145-152, 157-158
StepSearch(sh, fr) ==
  AfterSearch(sh, Searched(Saw(fr, sh.fg), "network"),
              shortest_path(sh.heap[sh.fg], fr.source, fr.target, weight_map(fr.cost_type)))

\* graph.py 155: return self._calculate_path_metrics(path)
StepMetrics(sh, fr) ==
  LET g == sh.heap[sh.fg]
      f == Saw(fr, sh.fg)
  IN  IF ~HasAllLegs(g, fr.path)
      THEN [sh |-> sh, fr |-> Raise(f, "KeyError")]
      ELSE [sh |-> sh, fr |-> ReturnFSP(f, Some(_calculate_path_metrics(g, fr.path)))]

\* graph.py 192-195: the generator is asked for paths until one passes the
\* MAX_STOPS test
RECURSIVE NextValid(_, _, _, _, _)
SkipOrTake(g, source, target, attr, n) ==
  IF n.status = "yield" /\ SkipsPath(n.path)
  THEN NextValid(g, source, target, attr, n.gen)
  ELSE n

NextValid(g, source, target, attr, gen) ==
  SkipOrTake(g, source, target, attr, GenNext(g, source, target, attr, gen))

\* graph.py 196-209: what the loop does with the generator's answer n
AfterNext(sh, f, n) ==
  CASE n.status = "yield" ->
         [sh |-> sh, fr |-> [f EXCEPT !.gen = n.gen, !.path = n.path, !.pc = "ksp_metrics"]]
    [] n.status = "stop" -> [sh |-> sh, fr |-> Finish(f)]
    [] n.status = "NoPath" -> [sh |-> sh, fr |-> Finish([f EXCEPT !.paths = << >>])]
    [] OTHER -> [sh |-> sh, fr |-> Raise(f, n.status)]

\* graph.py 192: the generator is made from self.graph when the loop starts
StepKspNext(sh, fr) ==
  LET first == IsNone(fr.gen_graph)
      gid == IF first THEN sh.fg ELSE Val(fr.gen_graph)
      f == IF first THEN Searched(Saw([fr EXCEPT !.gen_graph = Some(gid)], gid), "network")
           ELSE fr
  IN  AfterNext(sh, f,
                NextValid(sh.heap[gid], fr.source, fr.target,
                          weight_map(fr.cost_type), fr.gen))

\* graph.py 200 with the new path put first
PrependPath(paths, path_metrics) == <<path_metrics>> \o paths

\* graph.py 200: paths.append(path_metrics)
AppendPath(paths, path_metrics) == Append(paths, path_metrics)

\* graph.py 198-204
StepKspMetrics(sh, fr) ==
  LET g == sh.heap[sh.fg]
      f == Saw(fr, sh.fg)
  IN  IF ~HasAllLegs(g, fr.path)
      THEN [sh |-> sh, fr |-> Raise(f, "KeyError")]
      ELSE
        LET paths == AppendPath(fr.paths, _calculate_path_metrics(g, fr.path))
        IN  IF Len(paths) >= fr.k
            THEN [sh |-> sh, fr |-> Finish([f EXCEPT !.paths = paths])]
            ELSE [sh |-> sh, fr |-> [f EXCEPT !.paths = paths, !.path = << >>, !.pc = "ksp_next"]]

\* hub_analysis.py 153 with no handler
CatchesNothing(exc) == FALSE

\* hub_analysis.py 153: except nx.NetworkXNoPath
CatchesNoPath(exc) == exc = "NoPath"

\* hub_analysis.py 138-146, 153-154: what follows the search r on the copy temp
AfterHubSearch(sh, fr, temp, r, id) ==
  CASE r.status # "ok" /\ CatchesNoPath(r.status) ->
         [sh |-> sh, fr |-> Finish([fr EXCEPT !.alternative_path = None,
                                              !.impact = Some(Impact(fr, None))])]
    [] r.status # "ok" /\ ~CatchesNoPath(r.status) -> [sh |-> sh, fr |-> Raise(fr, r.status)]
    [] OTHER ->
         [sh |-> [sh EXCEPT !.heap = (id :> temp) @@ sh.heap],
          fr |-> [Saw(fr, sh.fg) EXCEPT !.temp_graph = Some(id), !.path = r.path,
                                        !.original_graph = Some(sh.fg),
                                        !.pc = "hub_swap"]]

SearchCopy(sh, fr, temp) ==
  AfterHubSearch(sh, Searched(fr, "copy"), temp,
                 shortest_path(temp, fr.source, fr.target, "time_cost"),
                 FreshId(sh.heap))

\* hub_analysis.py 130-146: the copy of HubAnalyzer.graph, the removals, the search on
\* the copy and the read of temp_fg.graph into original_graph
StepHubCopy(sh, fr) ==
  SearchCopy(sh, fr, RemoveHubs(copy(sh.heap[ha_graph]), fr.hubs, fr.source, fr.target, 1))

\* hub_analysis.py 147: temp_fg.graph = temp_graph
StepHubSwap(sh, fr) ==
  [sh |-> [sh EXCEPT !.fg = Val(fr.temp_graph)], fr |-> [fr EXCEPT !.pc = "hub_metrics"]]

\* hub_analysis.py 149: temp_fg._calculate_path_metrics(alt_path_nodes)
StepHubMetrics(sh, fr) ==
  LET g == sh.heap[sh.fg]
  IN  IF ~HasAllLegs(g, fr.path)
      THEN [sh |-> sh,
            fr |-> Raise([fr EXCEPT !.alt_own = (sh.fg = Val(fr.temp_graph))], "KeyError")]
      ELSE [sh |-> sh,
            fr |-> [fr EXCEPT !.alternative_path = Some(_calculate_path_metrics(g, fr.path)),
                              !.alt_own = (sh.fg = Val(fr.temp_graph)),
                              !.pc = "hub_restore"]]

\* hub_analysis.py 151-177
StepHubRestore(sh, fr) ==
  [sh |-> [sh EXCEPT !.fg = RestoredGraph(sh.fg, Val(fr.original_graph))],
   fr |-> Finish([fr EXCEPT !.impact = Some(Impact(fr, fr.alternative_path))])]

Step(sh, fr) ==
  CASE fr.pc \in {"fsp_check", "ksp_check"} -> StepCheck(sh, fr)
    [] fr.pc = "fsp_search" -> StepSearch(sh, fr)
    [] fr.pc = "fsp_metrics" -> StepMetrics(sh, fr)
    [] fr.pc = "ksp_next" -> StepKspNext(sh, fr)
    [] fr.pc = "ksp_metrics" -> StepKspMetrics(sh, fr)
    [] fr.pc = "hub_copy" -> StepHubCopy(sh, fr)
    [] fr.pc = "hub_swap" -> StepHubSwap(sh, fr)
    [] fr.pc = "hub_metrics" -> StepHubMetrics(sh, fr)
    [] fr.pc = "hub_restore" -> StepHubRestore(sh, fr)

\* a call run from its first step to its end with no other call in between
RECURSIVE Run(_, _)
RunOn(r) == Run(r.sh, r.fr)

Run(sh, fr) ==
  IF fr.pc = "done" THEN [sh |-> sh, fr |-> fr] ELSE RunOn(Step(sh, fr))

\* the objects some reference still reaches; the others are collected
Live(fg, frames) ==
  {fg, ha_graph} \cup
  UNION {Range(frames[t].temp_graph) \cup Range(frames[t].original_graph)
           \cup Range(frames[t].gen_graph) : t \in Threads}

Collect(heap_, fg, frames) == [id \in (DOMAIN heap_) \cap Live(fg, frames) |-> heap_[id]]

(***************************************************************************)
(* HubAnalyzer: centrality, top hubs, alternative hubs, connectivity.      *)
(* Centrality values are in millionths (round(x, 6)).  The record of an    *)
(* airport carries the fields the properties read; betweenness_centrality  *)
(* and pagerank (floating-point iterations) are not computed here.         *)
(***************************************************************************)
\* hub_analysis.py 306-307: destinations[:10], origins[:10]
TopConnections == 10

\* the decimal expansion of p / q, one digit a round: the whole part acc and the
\* remainder rem after k more digits
RECURSIVE Digits(_, _, _, _)
Digits(acc, rem, q, k) ==
  IF k = 0 THEN [lo |-> acc, r |-> rem]
  ELSE Digits(acc * 10 + (rem * 10) \div q, (rem * 10) % q, q, k - 1)

\* round(p / q, 6) in millionths: the nearest, a half going to the even neighbour
Round6(p, q) ==
  LET d == Digits(p \div q, p % q, q, 6)
  IN  IF 2 * d.r < q THEN d.lo
      ELSE IF 2 * d.r > q THEN d.lo + 1
      ELSE IF d.lo % 2 = 0 THEN d.lo ELSE d.lo + 1

NodeSeq(g) == [i \in DOMAIN g.nodes |-> g.nodes[i].iata]
NodeData(g, n) == g.nodes[CHOOSE i \in DOMAIN g.nodes : g.nodes[i].iata = n]

in_degree(g, n) == Len(Predecessors(g, n))
out_degree(g, n) == Len(Successors(g, n))
degree(g, n) == in_degree(g, n) + out_degree(g, n)

\* the out-degree alone over N - 1
out_degree_centrality(g, n) ==
  IF Len(g.nodes) <= 1 THEN 1000000 ELSE Round6(out_degree(g, n), Len(g.nodes) - 1)

\* nx.degree_centrality(G): degree / (N - 1), and 1 for every node when N <= 1
degree_centrality(g, n) ==
  IF Len(g.nodes) <= 1 THEN 1000000 ELSE Round6(degree(g, n), Len(g.nodes) - 1)

RECURSIVE SumOver(_, _)
SumOver(f, S) ==
  IF S = {} THEN 0 ELSE LET x == CHOOSE x \in S : TRUE IN f[x] + SumOver(f, S \ {x})

MinOf(S) == CHOOSE x \in S : \A y \in S : x <= y

\* one round of relaxation of the distances to a node: v gets the least of what it
\* has and of time_cost(v, w) + dist[w] over its out-edges
RelaxAll(g, dist) ==
  LET cand(v) == (IF v \in DOMAIN dist THEN {dist[v]} ELSE {})
                   \cup {g.edges[i].time_cost + dist[g.edges[i].dst] :
                           i \in {j \in DOMAIN g.edges : /\ g.edges[j].src = v
                                                        /\ g.edges[j].dst \in DOMAIN dist}}
  IN  [v \in {u \in NodeSet(g) : cand(u) # {}} |-> MinOf(cand(v))]

RECURSIVE DistRounds(_, _, _)
DistRounds(g, dist, k) == IF k = 0 THEN dist ELSE DistRounds(g, RelaxAll(g, dist), k - 1)

\* nx.closeness_centrality on a DiGraph works on G.reverse():
\* single_source_dijkstra_path_length(G.reverse(), n, weight='time_cost') is the least
\* total time_cost from every node that reaches n, to n
DistancesTo(g, n) == DistRounds(g, n :> 0, Len(g.nodes))

\* nx.closeness_centrality(G, distance='time_cost') for node n (wf_improved):
\* ((r - 1) / totsp) * ((r - 1) / (N - 1)), r the size of sp, totsp in hours
ClosenessFrom(sp, N) ==
  IF SumOver(sp, DOMAIN sp) > 0 /\ N > 1
  THEN Round6((Cardinality(DOMAIN sp) - 1) * (Cardinality(DOMAIN sp) - 1) * 100,
              SumOver(sp, DOMAIN sp) * (N - 1))
  ELSE 0

closeness_centrality(g) ==
  [n \in NodeSet(g) |-> ClosenessFrom(DistancesTo(g, n), Len(g.nodes))]

\* dict.get(airport, 0)
GetOr0(d, airport) == IF airport \in DOMAIN d THEN d[airport] ELSE 0

\* hub_analysis.py 57: set(self.graph.nodes()).  The iteration order of a set of
\* strings follows their hashes, which Python draws anew for every process:
\* seed 0 stands for a process where it is the node order, seed 1 for one where it
\* is the reverse
HashSeeds == {0, 1}

\* the seed of the processes whose operations iterate no set (the engine's path
\* operations read no hash order)
ProcessSeed == CHOOSE seed \in HashSeeds : \A other \in HashSeeds : seed <= other
SetOrder(nodes, seed) == IF seed = 0 THEN nodes ELSE Reverse(nodes)

\* hub_analysis.py 61-74: the record of one airport
CentralityRecord(g, closeness, airport) ==
  [iata |-> airport,
   country |-> NodeData(g, airport).country,
   degree_centrality |-> degree_centrality(g, airport),
   closeness_centrality |-> GetOr0(closeness, airport),
   in_degree |-> in_degree(g, airport),
   out_degree |-> out_degree(g, airport),
   total_degree |-> degree(g, airport)]

\* the loop over all_airports, given what the closeness step produced
CombineMetrics(g, closeness, all_airports) ==
  [i \in DOMAIN all_airports |-> CentralityRecord(g, closeness, all_airports[i])]

\* HubAnalyzer.calculate_centrality_metrics: the dictionary as the sequence of its
\* values in insertion order
calculate_centrality_metrics(g, seed) ==
  CombineMetrics(g, closeness_centrality(g), SetOrder(NodeSeq(g), seed))

\* sorted(values, key=lambda x: x[sort_key], reverse=reverse): stable, equal keys
\* keep their order
RECURSIVE sorted(_, _, _)
InsertSorted(done, x, sort_key, reverse) ==
  LET stays(y) == IF reverse THEN y[sort_key] >= x[sort_key] ELSE y[sort_key] <= x[sort_key]
      p == Cardinality({i \in DOMAIN done : stays(done[i])})
  IN  SubSeq(done, 1, p) \o <<x>> \o SubSeq(done, p + 1, Len(done))

sorted(values, sort_key, reverse) ==
  IF values = << >> THEN << >>
  ELSE InsertSorted(sorted(SubSeq(values, 1, Len(values) - 1), sort_key, reverse),
                    values[Len(values)], sort_key, reverse)

\* s[:n] without the cut: the whole list
WholeList(s, n) == s

\* s[:n] for n >= 0
FirstN(s, n) == SubSeq(s, 1, IF n < Len(s) THEN n ELSE Len(s))

\* hub_analysis.py 92-99: metric_map.get(metric, 'degree_centrality')
metric_map(metric) ==
  CASE metric = "degree" -> "degree_centrality"
    [] metric = "betweenness" -> "betweenness_centrality"
    [] metric = "closeness" -> "closeness_centrality"
    [] metric = "pagerank" -> "pagerank"
    [] OTHER -> "degree_centrality"

\* HubAnalyzer.get_top_hubs
get_top_hubs(g, seed, top_k, metric) ==
  FirstN(sorted(calculate_centrality_metrics(g, seed), metric_map(metric), TRUE), top_k)

\* HubAnalyzer.get_hub_connectivity
get_hub_connectivity(g, hub) ==
  IF hub \notin NodeSet(g) THEN None
  ELSE
    LET destinations == [i \in DOMAIN Successors(g, hub) |-> Successors(g, hub)[i].dst]
        origins == [i \in DOMAIN Predecessors(g, hub) |-> Predecessors(g, hub)[i].src]
        countries == {NodeData(g, n).country : n \in Range(destinations) \cup Range(origins)}
    IN  Some([iata |-> hub,
              country |-> NodeData(g, hub).country,
              num_destinations |-> Len(destinations),
              num_origins |-> Len(origins),
              total_connections |-> Cardinality(Range(destinations) \cup Range(origins)),
              countries_served |-> Cardinality(countries),
              top_destinations |-> FirstN(destinations, TopConnections),
              top_origins |-> FirstN(origins, TopConnections)])

\* the attributes of a FlightGraph object: those __init__ sets and the methods the
\* class defines (graph.py 12-272)
FlightGraphAttrs ==
  {"airports_df", "routes_df", "graph", "_calculate_distance", "_build_graph",
   "get_transfer_time", "find_shortest_path", "find_k_shortest_paths",
   "_calculate_path_metrics", "get_graph_stats", "export_to_gexf"}

\* self.flight_graph.<name>: an attribute the object lacks raises AttributeError
HasAttr(name) == name \in FlightGraphAttrs

\* what the lookup named at hub_analysis.py 199 is to give: the country of the airport
_get_country_by_iata(g, iata) == IF iata \in NodeSet(g) THEN NodeData(g, iata).country ELSE ""

\* hub_analysis.py 215-218
IsInternational(country_source, country_hub, country_target) ==
  /\ country_source # "" /\ country_hub # "" /\ country_target # ""
  /\ (country_source # country_hub \/ country_hub # country_target)

\* hub_analysis.py 209-265: the option of one candidate hub
HubOption(g, source, target, potential_hub) ==
  LET is_international == IsInternational(_get_country_by_iata(g, source),
                                          _get_country_by_iata(g, potential_hub),
                                          _get_country_by_iata(g, target))
      transfer_time_hub == get_transfer_time(potential_hub, is_international)
      src_to_hub == EdgeData(g, source, potential_hub)
      hub_to_dst == EdgeData(g, potential_hub, target)
  IN  [hub |-> potential_hub,
       hub_country |-> NodeData(g, potential_hub).country,
       is_international_transfer |-> is_international,
       total_time |-> src_to_hub.time_cost + hub_to_dst.time_cost + transfer_time_hub,
       total_distance |-> src_to_hub.distance + hub_to_dst.distance,
       total_cost |-> src_to_hub.monetary_cost + hub_to_dst.monetary_cost,
       transfer_time |-> transfer_time_hub,
       segments |-> << [from |-> source, to |-> potential_hub,
                        distance |-> src_to_hub.distance, time |-> src_to_hub.time_cost,
                        cost |-> src_to_hub.monetary_cost],
                       [from |-> potential_hub, to |-> target,
                        distance |-> hub_to_dst.distance, time |-> hub_to_dst.time_cost,
                        cost |-> hub_to_dst.monetary_cost] >>]

\* hub_analysis.py 203-265: the loop over self.graph.nodes()
RECURSIVE AlternativesLoop(_, _, _, _, _)
AlternativesLoop(g, source, target, primary_hub, i) ==
  IF i > Len(g.nodes) THEN << >>
  ELSE LET potential_hub == g.nodes[i].iata
       IN  (IF potential_hub \in {source, target, primary_hub} THEN << >>
            ELSE IF ~(has_edge(g, source, potential_hub) /\ has_edge(g, potential_hub, target))
                 THEN << >>
                 ELSE <<HubOption(g, source, target, potential_hub)>>)
           \o AlternativesLoop(g, source, target, primary_hub, i + 1)

\* HubAnalyzer.find_alternative_hubs: what it raises, or the list it returns
find_alternative_hubs(g, source, target, primary_hub, top_k) ==
  IF ~HasAttr("_get_country_by_iata")
  THEN [raised |-> "AttributeError", ret |-> None]
  ELSE [raised |-> "",
        ret |-> Some(FirstN(sorted(AlternativesLoop(g, source, target, primary_hub, 1),
                                   "total_time", FALSE), top_k))]

(***************************************************************************)
(* Requests.                                                               *)
(***************************************************************************)
MaxStopsArgs == {None} \cup {Some(n) : n \in 0..MaxStopsArg}

\* the order of the codes in the lists below
CodeRank(c) ==
  IF c = UnknownCode THEN Len(Airports) + 1
  ELSE CHOOSE i \in DOMAIN Airports : Airports[i].iata = c

\* the hubs_to_remove lists: at most MaxHubs distinct codes, in ascending order
RECURSIVE HubListsOfLen(_)
HubListsOfLen(n) ==
  IF n = 0 THEN {<< >>}
  ELSE {Append(l, c) : l \in HubListsOfLen(n - 1), c \in Codes}

HubLists ==
  {l \in UNION {HubListsOfLen(n) : n \in 0..MaxHubs} :
     \A i, j \in DOMAIN l : i < j => CodeRank(l[i]) < CodeRank(l[j])}

\* the inputs routes_df is drawn from
RouteInputs ==
  {DropIdx(RoutePool, first..(first + n - 1), 1) :
     first \in DOMAIN RoutePool, n \in 0..MaxDropped}

(***************************************************************************)
(* The engine serving one request at a time.                               *)
(***************************************************************************)
Init ==
  /\ airports_df = Airports
  /\ routes_df \in RouteInputs
  /\ heap = (0 :> _build_graph(airports_df, routes_df))
  /\ fg_graph = 0
  /\ ha_graph = 0
  /\ th = [t \in Threads |-> IdleFrame]
  /\ hash_seed = ProcessSeed

\* the state after a call: r is the shared state and the frame it ended with
After(t, r) ==
  /\ th' = [th EXCEPT ![t] = r.fr]
  /\ fg_graph' = r.sh.fg
  /\ heap' = Collect(r.sh.heap, r.sh.fg, [th EXCEPT ![t] = r.fr])
  /\ UNCHANGED <<airports_df, routes_df, ha_graph, hash_seed>>

\* the call fr made by thread t and run to its end
Serve(t, fr) ==
  /\ th[t].pc = "idle"
  /\ After(t, Run([heap |-> heap, fg |-> fg_graph], fr))

FindShortestPath ==
  \E source \in Codes, target \in Codes, cost_type \in CostTypes, max_stops \in MaxStopsArgs :
    Serve("t1", FrameFSP(source, target, cost_type, max_stops))

FindKShortestPaths ==
  \E source \in Codes, target \in Codes, cost_type \in CostTypes, k \in 1..MaxK :
    Serve("t1", FrameKSP(source, target, k, cost_type))

AnalyzeHubRemoval ==
  \E source \in Codes, target \in Codes, hubs_to_remove \in HubLists :
    Serve("t1", FrameHub(source, target, hubs_to_remove))

\* the result is handed to the caller and the thread is free again
Return(t) ==
  /\ th[t].pc = "done"
  /\ th' = [th EXCEPT ![t] = IdleFrame]
  /\ UNCHANGED <<airports_df, routes_df, heap, fg_graph, ha_graph, hash_seed>>

Respond == Return("t1")

Next == FindShortestPath \/ FindKShortestPaths \/ AnalyzeHubRemoval \/ Respond

Spec == Init /\ [][Next]_vars

(***************************************************************************)
(* The same engine called from two threads.  FlightGraph and HubAnalyzer   *)
(* hold no lock, so between two accesses of FlightGraph.graph by one       *)
(* thread the other thread may run: a step of a call holds one access.     *)
(***************************************************************************)
ConcSources == {"AAA"}
ConcTargets == {"DDD", "FFF"}

InitConc ==
  /\ airports_df = Airports
  /\ routes_df = RoutePool
  /\ heap = (0 :> _build_graph(airports_df, routes_df))
  /\ fg_graph = 0
  /\ ha_graph = 0
  /\ th = [t \in Threads |-> IdleFrame]
  /\ hash_seed = ProcessSeed

Enter(t, fr) ==
  /\ th[t].pc = "idle"
  /\ th' = [th EXCEPT ![t] = fr]
  /\ UNCHANGED <<airports_df, routes_df, heap, fg_graph, ha_graph, hash_seed>>

CallFindShortestPath(t) ==
  \E source \in ConcSources, target \in ConcTargets :
    Enter(t, FrameFSP(source, target, "time", None))

CallFindKShortestPaths(t) ==
  \E source \in ConcSources, target \in ConcTargets, k \in 1..MaxK :
    Enter(t, FrameKSP(source, target, k, "time"))

CallAnalyzeHubRemoval(t) ==
  \E source \in ConcSources, target \in ConcTargets, hubs_to_remove \in HubLists :
    Enter(t, FrameHub(source, target, hubs_to_remove))

\* thread t runs up to its next access of FlightGraph.graph
Advance(t) ==
  /\ th[t].pc \notin {"idle", "done"}
  /\ After(t, Step([heap |-> heap, fg |-> fg_graph], th[t]))

NextConc ==
  \E t \in Threads :
    \/ CallFindShortestPath(t)
    \/ CallFindKShortestPaths(t)
    \/ CallAnalyzeHubRemoval(t)
    \/ Advance(t)

SpecConc == InitConc /\ [][NextConc]_vars

(***************************************************************************)
(* The HubAnalyzer queries.  They read the network HubAnalyzer holds and   *)
(* change nothing; each is served at once.  The networks: the one of the   *)
(* engine above, a hub with more than TopConnections destinations, a hub   *)
(* with more than TopConnections origins (each without and with a route    *)
(* from the hub to itself), and a single airport.                          *)
(***************************************************************************)
StarCodes ==
  <<"HUB", "S01", "S02", "S03", "S04", "S05", "S06", "S07", "S08", "S09", "S10", "S11">>

StarAirports ==
  [i \in DOMAIN StarCodes |->
     [iata |-> StarCodes[i],
      country |-> IF i % 3 = 0 THEN "X" ELSE IF i % 3 = 1 THEN "Y" ELSE "Z",
      latitude |-> i % 4, longitude |-> i]]

Spokes == Len(StarCodes) - 1

\* the routes between the hub and its spokes, last spoke first
Outbound == [i \in 1..Spokes |->
               [source_airport |-> StarCodes[1],
                destination_airport |-> StarCodes[Len(StarCodes) + 1 - i], airline |-> "AL1"]]
Inbound == [i \in 1..Spokes |->
              [source_airport |-> StarCodes[Len(StarCodes) + 1 - i],
               destination_airport |-> StarCodes[1], airline |-> "AL1"]]

\* a route from the hub to itself
SelfRoute ==
  [source_airport |-> StarCodes[1], destination_airport |-> StarCodes[1], airline |-> "AL2"]

\* every route one way and the first MaxK of the other way
FanOut == Outbound \o SubSeq(Inbound, 1, MaxK)
FanIn == Inbound \o SubSeq(Outbound, 1, MaxK)

AnalysisInputs ==
  {[airports |-> Airports, routes |-> r] : r \in RouteInputs}
    \cup {[airports |-> StarAirports, routes |-> r] :
            r \in {FanOut, FanIn, Append(FanOut, SelfRoute), Append(FanIn, SelfRoute)}}
    \cup {[airports |-> SubSeq(Airports, 1, 1), routes |-> << >>]}

\* the metric names a caller may pass: the ones whose values are computed here, and
\* one that metric_map does not know
Metrics == {"degree", "closeness", "hubness"}

InitAnalysis ==
  /\ \E in \in AnalysisInputs : airports_df = in.airports /\ routes_df = in.routes
  /\ heap = (0 :> _build_graph(airports_df, routes_df))
  /\ fg_graph = 0
  /\ ha_graph = 0
  /\ th = [t \in Threads |-> IdleFrame]
  /\ hash_seed \in HashSeeds

\* the query fr of thread t answered with ret, or ended by the exception raised
Answer(t, fr, raised, ret) ==
  /\ th[t].pc = "idle"
  /\ th' = [th EXCEPT ![t] = [fr EXCEPT !.pc = "done", !.raised = raised, !.ret = ret]]
  /\ UNCHANGED <<airports_df, routes_df, heap, fg_graph, ha_graph, hash_seed>>

\* the codes a query may name
AnalysisCodes == NodeSet(heap[ha_graph]) \cup {UnknownCode}

CalculateCentralityMetrics ==
  Answer("t1", [IdleFrame EXCEPT !.op = "calculate_centrality_metrics"], "",
         Some(calculate_centrality_metrics(heap[ha_graph], hash_seed)))

GetTopHubs ==
  \E top_k \in 1..MaxK, metric \in Metrics :
    Answer("t1", [IdleFrame EXCEPT !.op = "get_top_hubs", !.top_k = top_k, !.metric = metric],
           "", Some(get_top_hubs(heap[ha_graph], hash_seed, top_k, metric)))

GetHubConnectivity ==
  \E hub \in AnalysisCodes :
    Answer("t1", [IdleFrame EXCEPT !.op = "get_hub_connectivity", !.hub = hub],
           "", get_hub_connectivity(heap[ha_graph], hub))

\* the airports a find_alternative_hubs query may name: the first of the network
QueryCodes ==
  {heap[ha_graph].nodes[i].iata :
     i \in {j \in DOMAIN heap[ha_graph].nodes : j <= MaxQueryCodes}}

FindAlternativeHubs ==
  \E source \in QueryCodes, target \in QueryCodes, primary_hub \in QueryCodes,
     top_k \in 1..MaxK :
    LET r == find_alternative_hubs(heap[ha_graph], source, target, primary_hub, top_k)
    IN  Answer("t1", [IdleFrame EXCEPT !.op = "find_alternative_hubs", !.source = source,
                                       !.target = target, !.primary_hub = primary_hub,
                                       !.top_k = top_k],
               r.raised, r.ret)

NextAnalysis ==
  \/ CalculateCentralityMetrics
  \/ GetTopHubs
  \/ GetHubConnectivity
  \/ FindAlternativeHubs
  \/ Respond

SpecAnalysis == InitAnalysis /\ [][NextAnalysis]_vars

(***************************************************************************)
(* Reference definitions for the properties: paths by exhaustive search.   *)
(***************************************************************************)
\* the canonical network: the object built by the constructor
Canon == heap[ha_graph]

\* the frame of the thread that serves the requests of Spec
Call == th["t1"]

RECURSIVE ExtendPaths(_, _, _, _)
ExtendPaths(g, target, avoid, p) ==
  IF p[Len(p)] = target THEN {p}
  ELSE UNION {ExtendPaths(g, target, avoid, Append(p, v)) :
                v \in {e[2] : e \in {e \in EdgeSet(g) : e[1] = p[Len(p)]}}
                        \ (Range(p) \cup avoid)}

\* every simple path of g from source to target that meets no node of avoid
SimplePaths(g, source, target, avoid) ==
  IF source \notin NodeSet(g) \ avoid \/ target \notin NodeSet(g) \ avoid THEN {}
  ELSE ExtendPaths(g, target, avoid, <<source>>)

\* p runs from source to target along edges of g
IsPath(g, p, source, target) ==
  /\ Len(p) >= 1
  /\ p[1] = source
  /\ p[Len(p)] = target
  /\ \A i \in 1..(Len(p) - 1) : has_edge(g, p[i], p[i + 1])

IsSimple(p) == \A i, j \in DOMAIN p : i # j => p[i] # p[j]

\* the edge attribute a weight selector stands for
SelectedAttr(cost_type) ==
  IF cost_type = "distance" THEN "distance"
  ELSE IF cost_type = "cost" THEN "monetary_cost"
  ELSE "time_cost"

Lightest(g, p, all, attr) ==
  \A q \in all : PathWeight(g, p, attr) <= PathWeight(g, q, attr)

Served(op) == Call.pc = "done" /\ Call.op = op

(***************************************************************************)
(* C1: find_shortest_path without max_stops returns a path from source to  *)
(* target of least total weight under the selected edge attribute, and     *)
(* returns None when an endpoint is no node or no directed path exists.    *)
(***************************************************************************)
C1_ShortestPathIsLightest ==
  (Served("find_shortest_path") /\ IsNone(Call.max_stops)) =>
    LET all == SimplePaths(Canon, Call.source, Call.target, {})
    IN  /\ Call.raised = ""
        /\ IF all = {} THEN IsNone(Call.ret)
           ELSE /\ ~IsNone(Call.ret)
                /\ IsPath(Canon, Val(Call.ret).path, Call.source, Call.target)
                /\ Lightest(Canon, Val(Call.ret).path, all, SelectedAttr(Call.cost_type))

C1_Witness ==
  /\ Served("find_shortest_path")
  /\ IsNone(Call.max_stops)
  /\ ~IsNone(Call.ret)
  /\ Val(Call.ret).stops >= 2
  /\ \E q \in SimplePaths(Canon, Call.source, Call.target, {}) :
       /\ Len(q) < Len(Val(Call.ret).path)
       /\ PathWeight(Canon, q, "distance") > Val(Call.ret).total_distance

(***************************************************************************)
(* C2: the paths find_k_shortest_paths returns are simple paths from       *)
(* source to target, no two of them the same node sequence, each at least  *)
(* as heavy under the selected attribute as the one before it.             *)
(***************************************************************************)
C2_KPathsSimpleDistinctOrdered ==
  Served("find_k_shortest_paths") =>
    LET ps == Call.paths
        w(i) == PathWeight(Canon, ps[i].path, SelectedAttr(Call.cost_type))
    IN  /\ Call.raised = ""
        /\ \A i \in DOMAIN ps :
             IsPath(Canon, ps[i].path, Call.source, Call.target) /\ IsSimple(ps[i].path)
        /\ \A i, j \in DOMAIN ps : i # j => ps[i].path # ps[j].path
        /\ \A i \in 1..(Len(ps) - 1) : w(i) <= w(i + 1)

C2_Witness ==
  /\ Served("find_k_shortest_paths")
  /\ Len(Call.paths) >= 3
  /\ Call.paths[1].total_distance < Call.paths[2].total_distance
  /\ Call.paths[2].total_distance = Call.paths[3].total_distance

(***************************************************************************)
(* C3: find_k_shortest_paths skips every path with more than MAX_STOPS     *)
(* stops without counting it, and returns min(k, M) paths, M the number of *)
(* simple paths with at most MAX_STOPS stops: the lightest of them.        *)
(***************************************************************************)
WithinStops(g, source, target) ==
  {p \in SimplePaths(g, source, target, {}) : Len(p) - 2 <= MAX_STOPS}

C3_KPathsCountAndCeiling ==
  Served("find_k_shortest_paths") =>
    LET valid == WithinStops(Canon, Call.source, Call.target)
        M == Cardinality(valid)
        got == {Call.paths[i].path : i \in DOMAIN Call.paths}
        attr == SelectedAttr(Call.cost_type)
    IN  /\ Len(Call.paths) = IF Call.k <= M THEN Call.k ELSE M
        /\ got \subseteq valid
        /\ \A p \in got : Lightest(Canon, p, valid \ got, attr)

C3_Witness ==
  /\ Served("find_k_shortest_paths")
  /\ Len(Call.paths) = Call.k
  /\ \E q \in SimplePaths(Canon, Call.source, Call.target, {}) :
       /\ Len(q) - 2 > MAX_STOPS
       /\ PathWeight(Canon, q, "distance") < Call.paths[Len(Call.paths)].total_distance

(***************************************************************************)
(* C4: with a max_stops bound, find_shortest_path returns the path it      *)
(* returns without the bound when that path has at most max_stops stops,   *)
(* and None otherwise, also when a heavier path respects the bound.        *)
(***************************************************************************)
Unbounded(f) ==
  Run([heap |-> heap, fg |-> ha_graph],
      FrameFSP(f.source, f.target, f.cost_type, None)).fr.ret

C4_StopLimitOnlyValidates ==
  (Served("find_shortest_path") /\ ~IsNone(Call.max_stops)) =>
    LET best == Unbounded(Call)
    IN  /\ Call.raised = ""
        /\ Call.ret = IF ~IsNone(best) /\ Val(best).stops <= Val(Call.max_stops)
                      THEN best ELSE None
        /\ ~IsNone(Call.ret) =>
             Lightest(Canon, Val(Call.ret).path,
                      SimplePaths(Canon, Call.source, Call.target, {}),
                      SelectedAttr(Call.cost_type))

C4_Witness ==
  /\ Served("find_shortest_path")
  /\ ~IsNone(Call.max_stops)
  /\ IsNone(Call.ret)
  /\ \E q \in SimplePaths(Canon, Call.source, Call.target, {}) :
       Len(q) - 2 <= Val(Call.max_stops)

(***************************************************************************)
(* C5: the built network holds at most one edge per ordered airport pair,  *)
(* carrying the route of lowest monetary_cost among the input routes of    *)
(* the pair, the first such route in input order when costs tie.           *)
(***************************************************************************)
ValidCodes == {airports_df[i].iata : i \in DOMAIN airports_df}

RoutesOf(u, v) ==
  {i \in DOMAIN routes_df : /\ routes_df[i].source_airport = u
                            /\ routes_df[i].destination_airport = v}

PairDistance(u, v) ==
  _calculate_distance(FirstAirport(airports_df, u).latitude,
                      FirstAirport(airports_df, u).longitude,
                      FirstAirport(airports_df, v).latitude,
                      FirstAirport(airports_df, v).longitude)

\* the monetary cost the construction computes for input route i
RouteCost(i) ==
  PairDistance(routes_df[i].source_airport, routes_df[i].destination_airport) * 10

\* the first of the cheapest routes of the pair
Cheapest(u, v) ==
  LET routes == RoutesOf(u, v)
  IN  CHOOSE i \in routes :
        LET cost == RouteCost(i)
        IN  \A j \in routes :
              LET other == RouteCost(j)
              IN  cost < other \/ (cost = other /\ i <= j)

C5_OneCheapestEdgePerPair ==
  /\ \A i, j \in DOMAIN Canon.edges :
       (Canon.edges[i].src = Canon.edges[j].src /\ Canon.edges[i].dst = Canon.edges[j].dst)
         => i = j
  /\ \A r \in DOMAIN routes_df :
       LET u == routes_df[r].source_airport
           v == routes_df[r].destination_airport
       IN  (u \in ValidCodes /\ v \in ValidCodes) =>
         LET distance == PairDistance(u, v)
             cheapest == Cheapest(u, v)
         IN  /\ has_edge(Canon, u, v)
             /\ EdgeData(Canon, u, v) =
                  [src |-> u, dst |-> v,
                   distance |-> distance,
                   time_cost |-> distance \div 8,
                   monetary_cost |-> RouteCost(cheapest),
                   airline |-> routes_df[cheapest].airline]

C5_Witness ==
  \E u \in ValidCodes, v \in ValidCodes :
    /\ has_edge(Canon, u, v)
    /\ \E i \in RoutesOf(u, v), j \in RoutesOf(u, v) :
         i < j /\ routes_df[i].airline # routes_df[j].airline

(***************************************************************************)
(* C6: the node set of the built network is the set of airport codes of    *)
(* the airports table, both endpoints of every edge are nodes, and a route *)
(* with an endpoint outside the table leaves no edge.                      *)
(***************************************************************************)
C6_EdgesJoinAirports ==
  /\ NodeSet(Canon) = ValidCodes
  /\ \A e \in EdgeSet(Canon) : e[1] \in NodeSet(Canon) /\ e[2] \in NodeSet(Canon)
  /\ EdgeSet(Canon) =
       {<<routes_df[i].source_airport, routes_df[i].destination_airport>> :
          i \in {j \in DOMAIN routes_df :
                   /\ routes_df[j].source_airport \in ValidCodes
                   /\ routes_df[j].destination_airport \in ValidCodes}}

C6_Witness ==
  /\ \E i \in DOMAIN routes_df : routes_df[i].source_airport \notin ValidCodes
  /\ \E i \in DOMAIN routes_df : routes_df[i].destination_airport \notin ValidCodes
  /\ EdgeSet(Canon) # {}

(***************************************************************************)
(* C7: when analyze_hub_removal has run with no other call in between, the *)
(* graph field of the flight graph refers to the canonical network again   *)
(* and the canonical network is what the constructor built: same nodes,    *)
(* same edges, same attributes.                                            *)
(***************************************************************************)
C7_HubRemovalLeavesNetwork ==
  Served("analyze_hub_removal") =>
    /\ fg_graph = ha_graph
    /\ heap[fg_graph] = _build_graph(airports_df, routes_df)
    /\ DOMAIN heap = {ha_graph}

C7_Witness ==
  /\ Served("analyze_hub_removal")
  /\ ~IsNone(Call.impact)
  /\ ~IsNone(Val(Call.impact).alternative_path)
  /\ ~IsNone(Val(Call.impact).original_path)
  /\ \E i \in DOMAIN Call.hubs :
       Call.hubs[i] \in Range(Val(Val(Call.impact).original_path).path)
                          \ {Call.source, Call.target}

(***************************************************************************)
(* C8: while analyze_hub_removal calls are in progress on other threads,   *)
(* a find_shortest_path or find_k_shortest_paths call never observes a     *)
(* transient reduced copy: every read it makes of the graph field sees the *)
(* canonical network.                                                      *)
(***************************************************************************)
Readers == {"find_shortest_path", "find_k_shortest_paths"}

C8_ReadersSeeCanonical ==
  \A t \in Threads : th[t].op \in Readers => th[t].reads \subseteq {"canonical"}

(***************************************************************************)
(* C9: when analyze_hub_removal calls that overlapped in time have all     *)
(* returned, the graph field refers to the canonical network, and each     *)
(* call computed the metrics of its alternative path against its own copy. *)
(***************************************************************************)
C9_OverlappingAnalysesRestore ==
  (\A t \in Threads : th[t].op = "analyze_hub_removal" /\ th[t].pc = "done") =>
    /\ fg_graph = ha_graph
    /\ \A t \in Threads : th[t].alt_own

(***************************************************************************)
(* C10: analyze_hub_removal never removes the source or the target, also   *)
(* when they are listed; its alternative path, when there is one, starts   *)
(* at the source, ends at the target, meets no other listed hub and has    *)
(* the least total time_cost of the paths of the reduced network.          *)
(***************************************************************************)
Removed(f) == Range(f.hubs) \ {f.source, f.target}

C10_AlternativeAvoidsHubs ==
  (Served("analyze_hub_removal") /\ {Call.source, Call.target} \subseteq NodeSet(Canon)) =>
    LET reduced == SimplePaths(Canon, Call.source, Call.target, Removed(Call))
    IN  /\ Call.raised = ""
        /\ ~IsNone(Call.impact)
        /\ reduced # {} => ~IsNone(Val(Call.impact).alternative_path)
        /\ ~IsNone(Val(Call.impact).alternative_path) =>
             LET p == Val(Val(Call.impact).alternative_path).path
             IN  /\ IsPath(Canon, p, Call.source, Call.target)
                 /\ Range(p) \cap Removed(Call) = {}
                 /\ p \in reduced
                 /\ Lightest(Canon, p, reduced, "time_cost")

C10_Witness ==
  /\ Served("analyze_hub_removal")
  /\ Call.source # Call.target
  /\ Range(Call.hubs) \cap {Call.source, Call.target} # {}
  /\ ~IsNone(Call.impact)
  /\ ~IsNone(Val(Call.impact).alternative_path)
  /\ Val(Val(Call.impact).alternative_path).stops >= 1

(***************************************************************************)
(* C11: for source and target in the network, analyze_hub_removal with an  *)
(* empty hubs_to_remove list reports an alternative_path identical to      *)
(* original_path (same nodes, same metrics, or both absent), and all four  *)
(* deltas are 0 when both exist.                                           *)
(***************************************************************************)
InNetwork(f) == {f.source, f.target} \subseteq NodeSet(Canon)

ZeroDeltas ==
  [time_increase |-> 0, cost_increase |-> 0, distance_increase |-> 0, stops_increase |-> 0]

C11_EmptyRemovalSamePath ==
  (Served("analyze_hub_removal") /\ InNetwork(Call) /\ Call.hubs = << >>) =>
    /\ Call.raised = ""
    /\ ~IsNone(Call.impact)
    /\ Val(Call.impact).alternative_path = Val(Call.impact).original_path
    /\ ~IsNone(Val(Call.impact).original_path) => Val(Call.impact).deltas = Some(ZeroDeltas)

(***************************************************************************)
(* C12: for source and target in the network, when the network without the *)
(* listed hubs has no path from source to target, analyze_hub_removal does *)
(* not fail: alternative_path is absent, path_exists is false, the         *)
(* original_path is still reported and no delta field is present.          *)
(***************************************************************************)
\* what find_shortest_path(source, target) returns on the canonical network
OriginalOf(f) ==
  Run([heap |-> heap, fg |-> ha_graph], FrameFSP(f.source, f.target, "time", None)).fr.ret

C12_NoAlternativeReported ==
  (/\ Served("analyze_hub_removal")
   /\ InNetwork(Call)
   /\ SimplePaths(Canon, Call.source, Call.target, Removed(Call)) = {}) =>
    /\ Call.raised = ""
    /\ ~IsNone(Call.impact)
    /\ IsNone(Val(Call.impact).alternative_path)
    /\ ~Val(Call.impact).path_exists
    /\ Val(Call.impact).original_path = OriginalOf(Call)
    /\ IsNone(Val(Call.impact).deltas)
    /\ Val(Call.impact).removed_hubs = Call.hubs

C12_Witness ==
  /\ Served("analyze_hub_removal")
  /\ InNetwork(Call)
  /\ Removed(Call) # {}
  /\ SimplePaths(Canon, Call.source, Call.target, Removed(Call)) = {}
  /\ ~IsNone(Call.impact)
  /\ ~IsNone(Val(Call.impact).original_path)
  /\ Val(Val(Call.impact).original_path).stops >= 1

(***************************************************************************)
(* C13: when the source or the target passed to analyze_hub_removal is no  *)
(* node of the network, the call ends in a not-found outcome the caller    *)
(* sees, no path search is called, neither on the canonical network nor on *)
(* the modified copy, and the graph field is left as it was.               *)
(***************************************************************************)
C13_UnknownEndpointNoSearch ==
  (Served("analyze_hub_removal") /\ ~InNetwork(Call)) =>
    /\ Call.raised = "NodeNotFound"
    /\ Call.searched = {}
    /\ fg_graph = ha_graph

(***************************************************************************)
(* find_alternative_hubs.                                                  *)
(***************************************************************************)
\* the call just served was find_alternative_hubs with its three airports in the network
AlternativesAsked ==
  /\ Call.pc = "done" /\ Call.op = "find_alternative_hubs"
  /\ {Call.source, Call.target, Call.primary_hub} \subseteq NodeSet(Canon)

\* the viable one-stop hubs of the call: neither source, target nor primary hub, with
\* a route from the source and a route to the target
ViableHubs ==
  {h \in NodeSet(Canon) \ {Call.source, Call.target, Call.primary_hub} :
     has_edge(Canon, Call.source, h) /\ has_edge(Canon, h, Call.target)}

\* C14: find_alternative_hubs, asked about airports of the network, returns a list of
\* options; no option's hub is the source, the target or the primary hub, and every
\* option's hub has a route from the source and a route to the target.
C14_AlternativeHubsViable ==
  AlternativesAsked =>
    /\ Call.raised = ""
    /\ Call.ret # None
    /\ \A i \in DOMAIN Call.ret[1] : Call.ret[1][i].hub \in ViableHubs

\* the total time of the one-stop journey over hub h: the two legs and the transfer at h
\* (international when the three airports are not all in one country)
ViaTime(h) ==
  LET c(n) == NodeData(Canon, n).country
  IN  EdgeData(Canon, Call.source, h).time_cost + EdgeData(Canon, h, Call.target).time_cost
        + (IF c(Call.source) # "" /\ c(h) # "" /\ c(Call.target) # ""
              /\ ~(c(Call.source) = c(h) /\ c(h) = c(Call.target))
           THEN (INTERNATIONAL_TRANSFER_TIME * 100) \div 60
           ELSE (DEFAULT_TRANSFER_TIME * 100) \div 60)

\* C15: find_alternative_hubs returns min(top_k, C) options, C the number of viable
\* one-stop hubs, in ascending order of total_time (two legs plus the transfer at the
\* hub), and no viable hub left out is faster than one returned.
C15_AlternativeHubsSmallestFirst ==
  AlternativesAsked =>
    /\ Call.raised = ""
    /\ Call.ret # None
    /\ Len(Call.ret[1]) = (IF Call.top_k < Cardinality(ViableHubs)
                           THEN Call.top_k ELSE Cardinality(ViableHubs))
    /\ \A i \in DOMAIN Call.ret[1] :
         /\ Call.ret[1][i].hub \in ViableHubs
         /\ Call.ret[1][i].total_time = ViaTime(Call.ret[1][i].hub)
         /\ \A j \in DOMAIN Call.ret[1] :
              i < j => /\ Call.ret[1][i].total_time <= Call.ret[1][j].total_time
                       /\ Call.ret[1][i].hub # Call.ret[1][j].hub
         /\ \A h \in ViableHubs \ {Call.ret[1][j].hub : j \in DOMAIN Call.ret[1]} :
              Call.ret[1][i].total_time <= ViaTime(h)

(***************************************************************************)
(* get_hub_connectivity.                                                   *)
(***************************************************************************)
\* the call just served was get_hub_connectivity
ConnectivityAsked == Call.pc = "done" /\ Call.op = "get_hub_connectivity"

\* the airports with a route from the hub, and those with a route to it
DestinationsOf(hub) == {v \in NodeSet(Canon) : has_edge(Canon, hub, v)}
OriginsOf(hub) == {u \in NodeSet(Canon) : has_edge(Canon, u, hub)}

\* top lists the first min(TopConnections, count) airports of all, all taken in the
\* order in which their routes with the hub (route(a) its place) entered the network
IsFirstOf(top, all, route(_)) ==
  /\ Len(top) = (IF Cardinality(all) < TopConnections THEN Cardinality(all) ELSE TopConnections)
  /\ Range(top) \subseteq all
  /\ \A i, j \in DOMAIN top : i < j => route(top[i]) < route(top[j])
  /\ \A a \in all \ Range(top) : \A i \in DOMAIN top : route(top[i]) < route(a)

\* C16: get_hub_connectivity returns None for a code that is no node; for a node it
\* reports the number of successors, of predecessors, of distinct airports among both,
\* of distinct countries among those, and the first min(10, count) successors and
\* predecessors in the network's iteration order.
C16_HubConnectivityCounts ==
  ConnectivityAsked =>
    /\ Call.raised = ""
    /\ Call.hub \notin NodeSet(Canon) => Call.ret = None
    /\ Call.hub \in NodeSet(Canon) =>
         /\ Call.ret # None
         /\ Call.ret[1].num_destinations = Cardinality(DestinationsOf(Call.hub))
         /\ Call.ret[1].num_origins = Cardinality(OriginsOf(Call.hub))
         /\ Call.ret[1].total_connections =
              Cardinality(DestinationsOf(Call.hub) \cup OriginsOf(Call.hub))
         /\ Call.ret[1].countries_served =
              Cardinality({NodeData(Canon, n).country :
                             n \in DestinationsOf(Call.hub) \cup OriginsOf(Call.hub)})
         /\ IsFirstOf(Call.ret[1].top_destinations, DestinationsOf(Call.hub),
                      LAMBDA v : EdgeIdx(Canon, Call.hub, v))
         /\ IsFirstOf(Call.ret[1].top_origins, OriginsOf(Call.hub),
                      LAMBDA u : EdgeIdx(Canon, u, Call.hub))

\* a hub with more destinations than the list holds, some of them origins as well
C16_Witness ==
  /\ ConnectivityAsked
  /\ Call.ret # None
  /\ Call.ret[1].num_destinations > TopConnections
  /\ Len(Call.ret[1].top_destinations) = TopConnections
  /\ Call.ret[1].num_origins > 0
  /\ Call.ret[1].total_connections < Call.ret[1].num_destinations + Call.ret[1].num_origins

(***************************************************************************)
(* calculate_centrality_metrics: degree centrality.                        *)
(***************************************************************************)
\* the call just served was calculate_centrality_metrics
MetricsAsked == Call.pc = "done" /\ Call.op = "calculate_centrality_metrics" /\ Call.ret # None

\* the records returned (centrality values in millionths)
Records == Range(Call.ret[1])

\* routes into and out of airport n, a route from n to itself counted both ways
DegreeOf(n) == Cardinality(DestinationsOf(n)) + Cardinality(OriginsOf(n))

\* C17 as stated: the degree_centrality of every node lies in [0, 1].
C17_DegreeCentralityInUnitInterval ==
  MetricsAsked => \A r \in Records : 0 <= r.degree_centrality /\ r.degree_centrality <= 1000000

\* C17 amended: the degree_centrality of a node is (in-degree + out-degree) / (N - 1)
\* rounded to six decimals (1 when N = 1); it is never negative, at most 2 for a node
\* without a route to itself and at most 2N / (N - 1) in general, and it is at most 1
\* exactly for the nodes whose in-degree + out-degree is at most N - 1.
C17_DegreeCentralityRange ==
  MetricsAsked =>
    LET N == Len(Canon.nodes)
    IN  \A r \in Records :
          /\ N = 1 => r.degree_centrality = 1000000
          /\ N > 1 =>
               /\ 2 * (r.degree_centrality * (N - 1) - DegreeOf(r.iata) * 1000000) <= N - 1
               /\ 2 * (DegreeOf(r.iata) * 1000000 - r.degree_centrality * (N - 1)) <= N - 1
               /\ r.degree_centrality >= 0
               /\ ~has_edge(Canon, r.iata, r.iata) => r.degree_centrality <= 2 * 1000000
               /\ r.degree_centrality * (N - 1) <= 2 * N * 1000000 + N - 1
               /\ r.degree_centrality <= 1000000 <=> DegreeOf(r.iata) <= N - 1

\* an airport with more routes in and out than there are other airports
C17_Witness ==
  /\ MetricsAsked
  /\ \E r \in Records : r.degree_centrality > 1000000 /\ DegreeOf(r.iata) > Len(Canon.nodes) - 1

(***************************************************************************)
(* get_top_hubs.                                                           *)
(***************************************************************************)
\* the call just served was get_top_hubs
TopHubsAsked == Call.pc = "done" /\ Call.op = "get_top_hubs" /\ Call.ret # None

\* the field the call ranks by
RankedBy == IF Call.metric = "closeness" THEN "closeness_centrality" ELSE "degree_centrality"

\* the place of airport n in the network's node enumeration
NodeIndex(n) == CHOOSE i \in DOMAIN Canon.nodes : Canon.nodes[i].iata = n

\* record a ranks before record b: a larger value, or an equal value and an earlier
\* place in the node enumeration
RanksBefore(a, b) ==
  \/ a[RankedBy] > b[RankedBy]
  \/ a[RankedBy] = b[RankedBy] /\ NodeIndex(a.iata) < NodeIndex(b.iata)

\* C18: get_top_hubs returns the first top_k airports by descending value of the chosen
\* metric (an unrecognized metric ranks by degree_centrality), airports of equal value
\* in the network's node enumeration order.
C18_TopHubsRankedStable ==
  TopHubsAsked =>
    LET all == Range(calculate_centrality_metrics(Canon, hash_seed))
        top == Call.ret[1]
    IN  /\ Len(top) = (IF Call.top_k < Cardinality(all) THEN Call.top_k ELSE Cardinality(all))
        /\ Range(top) \subseteq all
        /\ \A i, j \in DOMAIN top : i < j => RanksBefore(top[i], top[j])
        /\ \A r \in all \ Range(top) : \A i \in DOMAIN top : RanksBefore(top[i], r)

(***************************************************************************)
(* _calculate_path_metrics.                                                *)
(***************************************************************************)
\* the metrics records the call just served returned: _calculate_path_metrics applied
\* to a node sequence whose consecutive pairs are edges of the network
Reported ==
  IF Served("find_shortest_path") /\ ~IsNone(Call.ret) THEN {Val(Call.ret)}
  ELSE IF Served("find_k_shortest_paths") THEN Range(Call.paths)
  ELSE {}

\* the domestic transfer duration, in 1/100 hour
Domestic == (DEFAULT_TRANSFER_TIME * 100) \div 60

\* the sum of attribute attr over the legs of path p
LegSum(p, attr) == SumSeq([i \in 1..(Len(p) - 1) |-> EdgeData(Canon, p[i], p[i + 1])[attr]])

\* everything the record m says but its total_transfer_time: one segment per
\* consecutive pair in path order, stops, the three sums and the total time
LegsAndTotals(m) ==
  /\ HasAllLegs(Canon, m.path)
  /\ Len(m.segments) = Len(m.path) - 1
  /\ \A i \in DOMAIN m.segments :
       LET leg == EdgeData(Canon, m.path[i], m.path[i + 1])
       IN  /\ m.segments[i].from = m.path[i] /\ m.segments[i].to = m.path[i + 1]
           /\ m.segments[i].distance = leg.distance
           /\ m.segments[i].time = leg.time_cost
           /\ m.segments[i].cost = leg.monetary_cost
           /\ m.segments[i].airline = leg.airline
  /\ m.stops = Len(m.path) - 2
  /\ m.total_distance = LegSum(m.path, "distance")
  /\ m.total_flight_time = LegSum(m.path, "time_cost")
  /\ m.total_cost = LegSum(m.path, "monetary_cost")
  /\ m.total_time = m.total_flight_time + m.total_transfer_time

NoReachableTarget(n) == DestinationsOf(n) \subseteq {n}

\* C20: calculate_centrality_metrics returns one record for every node of the network,
\* and the closeness_centrality of every node from which no other node can be reached
\* is 0.
C20_EveryNodeClosenessZeroWithoutTargets ==
  MetricsAsked =>
    /\ Call.raised = ""
    /\ Len(Call.ret[1]) = Len(Canon.nodes)
    /\ {r.iata : r \in Records} = NodeSet(Canon)
    /\ \A r \in Records : NoReachableTarget(r.iata) => r.closeness_centrality = 0

(***************************************************************************)
(* Reported paths and the time delta of analyze_hub_removal.               *)
(***************************************************************************)
\* the metrics records of the paths analyze_hub_removal just reported
HubPaths ==
  IF Served("analyze_hub_removal") /\ ~IsNone(Call.impact)
  THEN {Val(o) : o \in {x \in {Val(Call.impact).original_path,
                                Val(Call.impact).alternative_path} : ~IsNone(x)}}
  ELSE {}

\* C21: every path the engine reports for a source and a target of the network, equal
\* or not (by find_shortest_path, find_k_shortest_paths, and as original_path or
\* alternative_path of analyze_hub_removal), has at least 2 airport codes, no code
\* twice, an edge of the network between every consecutive pair, and stops >= 0.
C21_ReportedPathsWellFormed ==
  (Call.pc = "done" /\ InNetwork(Call)) =>
    \A m \in Reported \cup HubPaths :
      /\ Len(m.path) >= 2
      /\ IsSimple(m.path)
      /\ IsPath(Canon, m.path, Call.source, Call.target)
      /\ m.stops >= 0

\* C22: whenever analyze_hub_removal reports an original and an alternative path, the
\* time_increase it reports (alternative total_time minus original total_time,
\* transfers included) is not negative.
C22_RemovalNeverFaster ==
  (/\ Served("analyze_hub_removal")
   /\ ~IsNone(Call.impact)
   /\ ~IsNone(Val(Call.impact).original_path)
   /\ ~IsNone(Val(Call.impact).alternative_path)) =>
    /\ ~IsNone(Val(Call.impact).deltas)
    /\ Val(Val(Call.impact).deltas).time_increase =
         Val(Val(Call.impact).alternative_path).total_time
           - Val(Val(Call.impact).original_path).total_time
    /\ Val(Val(Call.impact).deltas).time_increase >= 0
====
